---- MODULE Spec2Model ----
(***************************************************************************)
(* Model of the codex workflow orchestrator (codex-rs/workflow): the       *)
(* ticket state machine of orchestrator.rs, the state store of state.rs    *)
(* with its write-to-temporary-then-rename save, and the session launcher  *)
(* of session.rs as seen by the orchestrator.                               *)
(***************************************************************************)
EXTENDS Integers, Sequences, FiniteSets, TLC

\* ---------------------------------------------------------------- bounds
MaxRuns == 2
Chunks == 1
MaxIdLen == 3

\* ------------------------------------------------------------ data model
TicketIds == {"A", "B"}

\* Option<T>: None is the empty sequence, Some(x) the one-element sequence.
None == << >>
Some(x) == << x >>
IsSome(o) == Len(o) = 1

\* state.rs TicketStatus
Statuses == {"Pending", "RunningWorker", "NeedsReview", "RunningReview",
             "Complete", "Failed", "Blocked"}
Terminal == {"Complete", "Failed", "Blocked"}

\* output.status.code() of a child that has ended: an exit code, or no code
\* (killed by a signal).
ExitOutcomes == {Some(0), Some(1), None}

\* manifest.rs: the ordered ticket ids a manifest file can carry, valid or not.
ManifestInputs == {<< >>, <<"A">>, <<"B", "A">>, <<"A", "A">>}

Ids(m) == {m[i] : i \in 1..Len(m)}

\* Faulty variant: repeated ids are not looked for.
ValidateNonEmpty(m) == Len(m) > 0

\* manifest.rs validate: non-empty, no repeated id.
Validate(m) ==
    /\ Len(m) > 0
    /\ \A i, j \in 1..Len(m) : i # j => m[i] # m[j]

WorkflowName == "demo"

\* Characters: a few of [A-Za-z0-9_-], and a few outside of it.
SafeChars == {"A", "B", "z", "7", "-", "_"}
OtherChars == {"/", "\\", ".", " "}
Alphabet == SafeChars \cup OtherChars

\* The characters of a ticket id of the model ("A", "B": one character each).
Chars(id) == << id >>

\* Faulty variant: only the path separators are replaced.
sanitize_separators(cs) ==
    [i \in 1..Len(cs) |-> IF cs[i] \in {"/", "\\"} THEN "_" ELSE cs[i]]

\* layout.rs sanitize: the id, character by character.
sanitize(cs) ==
    [i \in 1..Len(cs) |-> IF cs[i] \in SafeChars THEN cs[i] ELSE "_"]

\* Paths below the artifacts root are sequences of components; the name of a
\* ticket directory is "ticket-" followed by the characters of sanitize.
ticket_dir(cs) == << <<"ticket-">> \o sanitize(cs) >>
worker_log_path(cs) == ticket_dir(cs) \o <<"worker.log">>
review_log_path(cs) == ticket_dir(cs) \o <<"review.log">>
patch_dir(cs) == ticket_dir(cs) \o <<"patches">>

\* layout.rs state_file
state_file == <<"state.json">>

\* Faulty variant: the temporary path is the target path itself.
tmp_path_in_place(path) == path

\* state.rs tmp_path: ".tmp" appended to the file name.
tmp_path(path) == path \o <<".tmp">>
Paths == {state_file, tmp_path(state_file)}

\* ------------------------------------------------------------ state store
PendingEntry(id) ==
    [ticket_id |-> id, status |-> "Pending", worker_log |-> None,
     review_log |-> None, note |-> None, started_at |-> None,
     finished_at |-> None]

NoTickets == [t \in {} |-> PendingEntry("A")]
NoState == [workflow_name |-> "", tickets |-> NoTickets]

\* Faulty variant: the entries are created as already started.
initialize_started(m) ==
    [workflow_name |-> WorkflowName,
     tickets |-> [t \in Ids(m) |->
        [PendingEntry(t) EXCEPT !.status = "RunningWorker", !.started_at = Some(0)]]]

\* state.rs initialize: one fresh entry per ticket of the manifest.
initialize(m) ==
    [workflow_name |-> WorkflowName,
     tickets |-> [t \in Ids(m) |-> PendingEntry(t)]]

\* Faulty variant: entries of ids that left the manifest are dropped.
sync_with_manifest_pruning(s, m) ==
    [s EXCEPT !.tickets =
        [t \in Ids(m) |->
            IF t \in DOMAIN s.tickets THEN s.tickets[t] ELSE PendingEntry(t)]]

sync_with_manifest(s, m) ==
    [s EXCEPT !.tickets =
        [t \in (DOMAIN s.tickets) \cup Ids(m) |->
            IF t \in DOMAIN s.tickets THEN s.tickets[t] ELSE PendingEntry(t)]]

\* Faulty variant: started_at is stamped every time.
mark_running_restamps(e, status, clock) ==
    [e EXCEPT !.status = status, !.started_at = Some(clock), !.note = None]

\* state.rs mark_running
mark_running(e, status, clock) ==
    [e EXCEPT !.status = status,
              !.started_at = IF e.started_at = None THEN Some(clock) ELSE @,
              !.note = None]

\* state.rs mark_finished
mark_finished(e, status, note, clock) ==
    [e EXCEPT !.status = status, !.note = note, !.finished_at = Some(clock)]

set_worker_log(e, path) == [e EXCEPT !.worker_log = Some(path)]
set_review_log(e, path) == [e EXCEPT !.review_log = Some(path)]

\* serde: #[serde(rename_all = "snake_case")] on TicketStatus.
StatusToJson(s) ==
    CASE s = "Pending" -> "pending"
      [] s = "RunningWorker" -> "running_worker"
      [] s = "NeedsReview" -> "needs_review"
      [] s = "RunningReview" -> "running_review"
      [] s = "Complete" -> "complete"
      [] s = "Failed" -> "failed"
      [] s = "Blocked" -> "blocked"

StatusFromJson(j) ==
    CASE j = "pending" -> "Pending"
      [] j = "running_worker" -> "RunningWorker"
      [] j = "needs_review" -> "NeedsReview"
      [] j = "running_review" -> "RunningReview"
      [] j = "complete" -> "Complete"
      [] j = "failed" -> "Failed"
      [] j = "blocked" -> "Blocked"

\* serde_json: an Option is null or the value itself.
JsonNull == <<"null">>
OptionToJson(o) == IF o = None THEN JsonNull ELSE <<"value", o[1]>>
OptionFromJson(j) == IF j = JsonNull THEN None ELSE Some(j[2])

\* #[derive(Serialize, Deserialize)] on TicketRunState
EntryToJson(e) ==
    [ticket_id |-> e.ticket_id,
     status |-> StatusToJson(e.status),
     worker_log |-> OptionToJson(e.worker_log),
     review_log |-> OptionToJson(e.review_log),
     note |-> OptionToJson(e.note),
     started_at |-> OptionToJson(e.started_at),
     finished_at |-> OptionToJson(e.finished_at)]

EntryFromJson(j) ==
    [ticket_id |-> j.ticket_id,
     status |-> StatusFromJson(j.status),
     worker_log |-> OptionFromJson(j.worker_log),
     review_log |-> OptionFromJson(j.review_log),
     note |-> OptionFromJson(j.note),
     started_at |-> OptionFromJson(j.started_at),
     finished_at |-> OptionFromJson(j.finished_at)]

\* Faulty variant: the note is left out of the document.
SerializeWithoutNote(s) ==
    [workflow_name |-> s.workflow_name,
     tickets |-> [t \in DOMAIN s.tickets |->
        [EntryToJson(s.tickets[t]) EXCEPT !.note = JsonNull]]]

\* serde_json::to_vec_pretty(self): the JSON document of a WorkflowState.
Serialize(s) ==
    [workflow_name |-> s.workflow_name,
     tickets |-> [t \in DOMAIN s.tickets |-> EntryToJson(s.tickets[t])]]

\* serde_json::from_str: the WorkflowState of a JSON document.
Deserialize(doc) ==
    [workflow_name |-> doc.workflow_name,
     tickets |-> [t \in DOMAIN doc.tickets |-> EntryFromJson(doc.tickets[t])]]

\* A file: absent, or the first `written` of the Chunks pieces of a document.
\* A file that lacks a piece is no document: only its length is kept.
EmptyDoc == Serialize(NoState)
NoFile == [exists |-> FALSE, doc |-> EmptyDoc, written |-> 0]
FileOf(doc, k) ==
    [exists |-> TRUE, doc |-> IF k < Chunks THEN EmptyDoc ELSE doc, written |-> k]
IsComplete(f) == f.exists /\ f.written = Chunks

\* format!("{:?}", result.status_code)
FormatCode(code) ==
    IF code = None THEN "None"
    ELSE IF code[1] = 0 THEN "Some(0)" ELSE "Some(1)"

Note(text, arg) == Some([text |-> text, arg |-> arg])

\* ------------------------------------------------------------ variables
VARIABLES
    pc,          \* position of the run_workflow process ("idle": no process)
    manifest,    \* the manifest loaded by the current run
    resume,      \* opts.resume of the current run
    idx,         \* index of the ticket of the `for ticket in &manifest.tickets` loop
    mem,         \* the WorkflowState owned by the run
    origin,      \* how the run built its state: "loaded" or "fresh"
    mem0,        \* the state right after it was loaded/initialized (line 55)
    err,         \* the error run_workflow returned, "none" if none
    fs,          \* the files of the artifacts root, by path
    saving,      \* TRUE between fs::write's File::create and the rename of a save
    rootExists,  \* the artifacts root directory exists
    ticketDirs,  \* ids whose ticket directory (with patches/) exists
    logs,        \* log paths written by the session launcher
    workdirs,    \* ids of the manifest whose resolved working directory exists
    sessions,    \* sessions launched and awaited by the run, as <<ticket id, step>>
    now,         \* the wall clock read by Utc::now(); it advances from run to run
    runs,        \* number of run_workflow invocations so far
    launched,    \* sessions launched by the current run, in order
    prevLaunched,\* sessions launched by the previous run
    results,     \* <<ticket id, step, status_code>> of the sessions that exited in this run
    crashed,     \* the previous run ended in a crash of the process
    passed,      \* <<ticket id, step>> of the sessions that have ever exited with 0
    call         \* a library function called on its own (load_status, the layout
                 \* paths), with its arguments and what it returned; NoCall if none

vars == <<pc, manifest, resume, idx, mem, origin, mem0, err, fs, saving, rootExists, ticketDirs, logs, workdirs, sessions, now, runs,
          launched, prevLaunched, results, crashed, passed, call>>

files == <<fs, saving>>
stateFile == fs[state_file]
tmpFile == fs[tmp_path(state_file)]
dirs == <<rootExists, ticketDirs>>
history == <<launched, prevLaunched, results, crashed, passed>>
runvars == <<manifest, resume, origin, mem0, runs>>

SavePcs == {"worker_save_running", "worker_save_result",
            "review_save_running", "review_save_result", "final_save"}
RunPcs == SavePcs \cup {"loop", "run_worker", "worker_launch", "worker_wait",
                        "run_review", "review_launch", "review_wait"}

cur == manifest[idx]
Entry(t) == mem.tickets[t]
SetEntry(t, e) == [mem EXCEPT !.tickets[t] = e]

NoCall == [op |-> "none"]

\* No run_workflow process yet, and an empty artifacts root.
InitSystem ==
    /\ pc = "idle"
    /\ manifest = << >>
    /\ resume = FALSE
    /\ idx = 1
    /\ mem = NoState
    /\ origin = "none"
    /\ mem0 = NoState
    /\ err = "none"
    /\ fs = [p \in Paths |-> NoFile]
    /\ saving = FALSE
    /\ rootExists = FALSE
    /\ ticketDirs = {}
    /\ logs = {}
    /\ workdirs = {}
    /\ sessions = {}
    /\ now = 0
    /\ runs = 0
    /\ launched = << >>
    /\ prevLaunched = {}
    /\ results = {}
    /\ crashed = FALSE
    /\ passed = {}

Init == InitSystem /\ call = NoCall

\* --------------------------------------------------------- run_workflow
\* WorkflowState::load: read_to_string + serde_json::from_str; a truncated
\* document does not parse.
LoadOk(f) == f.exists /\ f.written = Chunks

\* Faulty variant: an existing state file is reused whatever the flag says.
UseSavedStateAlways(r, f) == f.exists

\* orchestrator.rs 49-55: reuse the persisted state or start afresh.
UseSavedState(r, f) == r /\ f.exists

\* Faulty variant: the loop is not left after the last ticket.
AdvancePcNeverLeaves == "loop"

\* Faulty variant: the loop ends after the first ticket it has dealt with.
AdvancePcStopsEarly == "final_save"

\* the loop position after a ticket has been dealt with
AdvancePc == IF idx + 1 > Len(manifest) THEN "final_save" ELSE "loop"

\* run_workflow, lines 43-64, up to the first iteration of the loop.
StartRun(m, r, w) ==
    /\ pc = "idle"
    /\ runs < MaxRuns
    /\ runs' = runs + 1
    /\ manifest' = m
    /\ resume' = r
    /\ workdirs' = w
    /\ idx' = 1
    /\ now' = now + 1
    /\ UNCHANGED <<files, ticketDirs, logs, sessions, history, call>>
    /\ IF ~Validate(m)
       THEN /\ pc' = "failed"
            /\ err' = "manifest"
            /\ UNCHANGED <<mem, rootExists>>
            /\ origin' = "none"
            /\ mem0' = NoState
       ELSE /\ rootExists' = TRUE
            /\ IF UseSavedState(r, stateFile)
               THEN IF LoadOk(stateFile)
                    THEN /\ mem' = sync_with_manifest(Deserialize(stateFile.doc), m)
                         /\ origin' = "loaded"
                         /\ mem0' = mem'
                         /\ pc' = "loop"
                         /\ err' = "none"
                    ELSE /\ pc' = "failed"
                         /\ err' = "parse"
                         /\ origin' = "none"
                         /\ mem0' = NoState
                         /\ UNCHANGED mem
               ELSE /\ mem' = initialize(m)
                    /\ origin' = "fresh"
                    /\ mem0' = mem'
                    /\ pc' = "loop"
                    /\ err' = "none"

\* Faulty variant: a Failed ticket is worked on again.
ProcessBranchRetriesFailed(status) ==
    CASE status \in {"Complete", "Blocked"} -> "skip"
      [] status \in {"NeedsReview", "RunningReview"} -> "review"
      [] OTHER -> "worker"

\* Faulty variant: a Blocked ticket is not skipped.
ProcessBranchRunsBlocked(status) ==
    CASE status \in {"Complete", "Failed"} -> "skip"
      [] status \in {"NeedsReview", "RunningReview"} -> "review"
      [] OTHER -> "worker"

\* Faulty variant: only RunningReview skips the worker step.
ProcessBranchReworksNeedsReview(status) ==
    CASE status \in {"Complete", "Failed", "Blocked"} -> "skip"
      [] status \in {"RunningReview"} -> "review"
      [] OTHER -> "worker"

\* process_ticket, lines 105-120: which steps a ticket of this status gets.
ProcessBranch(status) ==
    CASE status \in {"Complete", "Failed", "Blocked"} -> "skip"
      [] status \in {"NeedsReview", "RunningReview"} -> "review"
      [] OTHER -> "worker"

ProcessTicket ==
    /\ pc = "loop"
    /\ idx <= Len(manifest)
    /\ IF cur \notin DOMAIN mem.tickets
       THEN /\ pc' = AdvancePc
            /\ idx' = idx + 1
       ELSE LET b == ProcessBranch(Entry(cur).status) IN
            /\ pc' = CASE b = "skip" -> AdvancePc
                       [] b = "review" -> "run_review"
                       [] OTHER -> "run_worker"
            /\ idx' = IF b = "skip" THEN idx + 1 ELSE idx
    /\ UNCHANGED <<mem, err, files, dirs, logs, workdirs, sessions, now,
                   history, runvars, call>>

\* Faulty variant: the worker log path is not recorded.
WorkerMarkRunningNoLog(e, t, clock) == mark_running(e, "RunningWorker", clock)

\* run_worker, lines 155-158: record the log path and mark the ticket running.
WorkerMarkRunning(e, t, clock) ==
    mark_running(set_worker_log(e, worker_log_path(Chars(t))), "RunningWorker", clock)

\* Faulty variant: the existence check is skipped.
WorkdirAssumed(t) == TRUE

\* run_worker 134-135, run_review 209-210: working_dir.exists()
WorkdirExists(t) == t \in workdirs

\* run_worker, lines 132-158.
RunWorkerBegin ==
    /\ pc = "run_worker"
    /\ ticketDirs' = ticketDirs \cup {cur}
    /\ IF ~WorkdirExists(cur)
       THEN /\ pc' = "failed"
            /\ err' = "workdir"
            /\ UNCHANGED mem
       ELSE /\ mem' = SetEntry(cur, WorkerMarkRunning(Entry(cur), cur, now))
            /\ pc' = "worker_save_running"
            /\ err' = err
    /\ UNCHANGED <<idx, files, rootExists, logs, workdirs, sessions, now, history,
                   runvars, call>>

\* Faulty variant: the review step also runs for a ticket the worker left Failed.
ReviewAppliesAfterFailure(status) ==
    status \in {"NeedsReview", "RunningReview", "Failed"}

\* run_review, lines 189-206: the statuses for which the review step runs.
ReviewApplies(status) == status \in {"NeedsReview", "RunningReview"}

\* run_review, lines 231-234.
ReviewMarkRunning(e, t, clock) ==
    mark_running(set_review_log(e, review_log_path(Chars(t))), "RunningReview", clock)

\* run_review, lines 189-234.
RunReviewBegin ==
    /\ pc = "run_review"
    /\ IF cur \notin DOMAIN mem.tickets \/ ~ReviewApplies(Entry(cur).status)
       THEN /\ pc' = AdvancePc
            /\ idx' = idx + 1
            /\ UNCHANGED <<mem, err>>
       ELSE IF ~WorkdirExists(cur)
       THEN /\ pc' = "failed"
            /\ err' = "workdir"
            /\ UNCHANGED <<mem, idx>>
       ELSE /\ mem' = SetEntry(cur, ReviewMarkRunning(Entry(cur), cur, now))
            /\ pc' = "review_save_running"
            /\ UNCHANGED <<idx, err>>
    /\ UNCHANGED <<files, dirs, logs, workdirs, sessions, now, history, runvars, call>>

\* ------------------------------------------------------ WorkflowState::save
\* Faulty variant: a worker step that failed is run again.
AfterSaveRetriesWorker(p) ==
    CASE p = "worker_save_running" -> "worker_launch"
      [] p = "worker_save_result" ->
            IF Entry(cur).status = "Failed" THEN "run_worker" ELSE "run_review"
      [] p = "review_save_running" -> "review_launch"
      [] p = "review_save_result" -> AdvancePc
      [] p = "final_save" -> "done"

\* Where control goes when the save at this position has returned Ok.
AfterSave(p) ==
    CASE p = "worker_save_running" -> "worker_launch"
      [] p = "worker_save_result" -> "run_review"
      [] p = "review_save_running" -> "review_launch"
      [] p = "review_save_result" -> AdvancePc
      [] p = "final_save" -> "done"

\* save, lines 71-77: create_dir_all(parent), serialize, and fs::write's
\* File::create of the temporary file (created or truncated, nothing written).
SaveCreateTmp ==
    /\ pc \in SavePcs
    /\ ~saving
    /\ saving' = TRUE
    /\ rootExists' = TRUE
    /\ fs' = [fs EXCEPT ![tmp_path(state_file)] = FileOf(Serialize(mem), 0)]
    /\ UNCHANGED <<pc, idx, mem, err, ticketDirs, logs, workdirs,
                   sessions, now, history, runvars, call>>

\* save, line 77: fs::write's write_all, one piece of the document at a time.
SaveWriteTmp ==
    /\ pc \in SavePcs
    /\ saving
    /\ tmpFile.written < Chunks
    /\ fs' = [fs EXCEPT ![tmp_path(state_file)] =
                    FileOf(Serialize(mem), tmpFile.written + 1)]
    /\ UNCHANGED <<pc, idx, mem, err, saving, dirs, logs, workdirs,
                   sessions, now, history, runvars, call>>

\* save, line 79: the files after fs::rename(from, to): `to` is replaced in one
\* step by the file that was at `from` (renaming a path onto itself does nothing).
Rename(f, from, to) ==
    [p \in DOMAIN f |->
        IF p = to THEN f[from] ELSE IF p = from THEN NoFile ELSE f[p]]

\* save, lines 79-81: the rename, and the return to the caller.
SaveRename ==
    /\ pc \in SavePcs
    /\ saving
    /\ tmpFile.written = Chunks
    /\ fs' = Rename(fs, tmp_path(state_file), state_file)
    /\ saving' = FALSE
    /\ pc' = AfterSave(pc)
    /\ idx' = IF pc = "review_save_result" THEN idx + 1 ELSE idx
    /\ UNCHANGED <<mem, err, dirs, logs, workdirs, sessions, now, history, runvars, call>>

\* save, lines 72-78: the directory or the temporary file cannot be created
\* and `?` returns the error up through run_workflow.
SaveFail ==
    /\ pc \in SavePcs
    /\ ~saving
    /\ saving' = FALSE
    /\ pc' = "failed"
    /\ err' = "io"
    /\ UNCHANGED <<idx, mem, fs, dirs, logs, workdirs, sessions, now, history,
                   runvars, call>>

\* ------------------------------------------------------ SessionLauncher::run
StepOf(p) == IF p \in {"worker_launch", "worker_wait"} THEN "worker" ELSE "review"

\* Faulty variant: the worker session is started but not awaited.
AfterLaunchNoAwait(p) == IF p = "worker_launch" THEN "run_review" ELSE "review_wait"

\* orchestrator.rs 160, 237: `launcher.run(request).await` blocks until the
\* child has exited.
AfterLaunch(p) == IF p = "worker_launch" THEN "worker_wait" ELSE "review_wait"

\* session.rs 39-42: the child process is spawned; run() awaits its exit.
LaunchSession ==
    /\ pc \in {"worker_launch", "review_launch"}
    /\ sessions' = sessions \cup {<<cur, StepOf(pc)>>}
    /\ launched' = Append(launched, <<cur, StepOf(pc)>>)
    /\ pc' = AfterLaunch(pc)
    /\ UNCHANGED <<idx, mem, err, files, dirs, logs, workdirs, now,
                   prevLaunched, results, crashed, passed, runvars, call>>

\* Faulty variant: a spawn error is recorded as a failed step and the run goes on.
SpawnFailMarksFailed ==
    /\ pc \in {"worker_launch", "review_launch"}
    /\ mem' = SetEntry(cur, mark_finished(Entry(cur), "Failed",
                                          Note("Session failed to start", ""), now))
    /\ pc' = IF pc = "worker_launch" THEN "worker_save_result" ELSE "review_save_result"
    /\ UNCHANGED <<idx, err, files, dirs, logs, workdirs, sessions, now,
                   history, runvars, call>>

\* session.rs 39-42: the executable cannot be spawned.
SpawnFail ==
    /\ pc \in {"worker_launch", "review_launch"}
    /\ pc' = "failed"
    /\ err' = "spawn"
    /\ UNCHANGED <<idx, mem, files, dirs, logs, workdirs, sessions, now,
                   history, runvars, call>>

\* session.rs 44, 56-79: the child exited but its log cannot be written.
LogWriteFail ==
    /\ pc \in {"worker_wait", "review_wait"}
    /\ sessions' = sessions \ {<<cur, StepOf(pc)>>}
    /\ pc' = "failed"
    /\ err' = "log"
    /\ UNCHANGED <<idx, mem, files, dirs, logs, workdirs, now, history, runvars, call>>

\* Faulty variant: any exit code counts as success, only a signal does not.
SuccessOnAnyCode(code) == code # None

\* session.rs 48: output.status.success()
Success(code) == code = Some(0)

\* Faulty variant: a failed worker is treated like a successful one.
ApplyWorkerResultIgnoresFailure(e, code, clock) ==
    [e EXCEPT !.status = "NeedsReview",
              !.note = Note("Worker completed successfully", "")]

\* Faulty variant: a successful worker is recorded with mark_finished.
ApplyWorkerResultFinishes(e, code, clock) ==
    IF Success(code)
    THEN mark_finished(e, "NeedsReview",
                       Note("Worker completed successfully", ""), clock)
    ELSE mark_finished(e, "Failed",
                       Note("Worker failed with status", FormatCode(code)), clock)

\* run_worker, lines 161-175: the worker's outcome applied to the ticket.
ApplyWorkerResult(e, code, clock) ==
    IF Success(code)
    THEN [e EXCEPT !.status = "NeedsReview",
                   !.note = Note("Worker completed successfully", "")]
    ELSE mark_finished(e, "Failed",
                       Note("Worker failed with status", FormatCode(code)), clock)

\* Faulty variant: the review's exit status is not looked at.
ApplyReviewResultAlwaysComplete(e, code, clock) ==
    mark_finished(e, "Complete", Note("Review passed", ""), clock)

\* Faulty variant: a review that failed blocks the ticket.
ApplyReviewResultBlocks(e, code, clock) ==
    IF Success(code)
    THEN mark_finished(e, "Complete", Note("Review passed", ""), clock)
    ELSE mark_finished(e, "Blocked",
                       Note("Review failed with status", FormatCode(code)), clock)

\* run_review, lines 238-251: the review's outcome applied to the ticket.
ApplyReviewResult(e, code, clock) ==
    IF Success(code)
    THEN mark_finished(e, "Complete", Note("Review passed", ""), clock)
    ELSE mark_finished(e, "Failed",
                       Note("Review failed with status", FormatCode(code)), clock)

\* Faulty variant: the log is written for a successful session only.
WorkerExitLogsSuccessOnly(code) ==
    /\ pc = "worker_wait"
    /\ sessions' = sessions \ {<<cur, "worker">>}
    /\ logs' = IF Success(code) THEN logs \cup {worker_log_path(Chars(cur))} ELSE logs
    /\ results' = results \cup {<<cur, "worker", code>>}
    /\ passed' = IF code = Some(0) THEN passed \cup {<<cur, "worker">>} ELSE passed
    /\ mem' = SetEntry(cur, ApplyWorkerResult(Entry(cur), code, now))
    /\ pc' = "worker_save_result"
    /\ UNCHANGED <<idx, err, files, dirs, workdirs, now, launched, prevLaunched,
                   crashed, runvars, call>>

\* run_worker, lines 160-175: launcher.run returns (log written), and the
\* result is applied.
WorkerExit(code) ==
    /\ pc = "worker_wait"
    /\ sessions' = sessions \ {<<cur, "worker">>}
    /\ logs' = logs \cup {worker_log_path(Chars(cur))}
    /\ results' = results \cup {<<cur, "worker", code>>}
    /\ passed' = IF code = Some(0) THEN passed \cup {<<cur, "worker">>} ELSE passed
    /\ mem' = SetEntry(cur, ApplyWorkerResult(Entry(cur), code, now))
    /\ pc' = "worker_save_result"
    /\ UNCHANGED <<idx, err, files, dirs, workdirs, now, launched, prevLaunched,
                   crashed, runvars, call>>

\* run_review, lines 237-251.
ReviewExit(code) ==
    /\ pc = "review_wait"
    /\ sessions' = sessions \ {<<cur, "review">>}
    /\ logs' = logs \cup {review_log_path(Chars(cur))}
    /\ results' = results \cup {<<cur, "review", code>>}
    /\ passed' = IF code = Some(0) THEN passed \cup {<<cur, "review">>} ELSE passed
    /\ mem' = SetEntry(cur, ApplyReviewResult(Entry(cur), code, now))
    /\ pc' = "review_save_result"
    /\ UNCHANGED <<idx, err, files, dirs, workdirs, now, launched, prevLaunched,
                   crashed, runvars, call>>

\* ------------------------------------------------- process end, environment
\* What is left of a run once its process is gone: nothing but the files.
EndOfRun ==
    /\ pc' = "idle"
    /\ mem' = NoState
    /\ mem0' = NoState
    /\ manifest' = << >>
    /\ resume' = FALSE
    /\ origin' = "none"
    /\ err' = "none"
    /\ idx' = 1
    /\ sessions' = {}
    /\ saving' = FALSE
    /\ workdirs' = {}
    /\ launched' = << >>
    /\ prevLaunched' = {launched[i] : i \in 1..Len(launched)}
    /\ results' = {}
    /\ UNCHANGED <<fs, dirs, logs, now, runs, passed, call>>

\* run_workflow has returned (a report or an error) and the process exits.
Return ==
    /\ pc \in {"done", "failed"}
    /\ crashed' = FALSE
    /\ EndOfRun

\* The orchestrator process dies at any point of a run: its memory and the
\* child it was awaiting are gone, the files stay as they are.
Crash ==
    /\ pc \in RunPcs
    /\ crashed' = TRUE
    /\ EndOfRun

\* The working directory of the ticket disappears while its worker session
\* runs (before a run starts, StartRun draws the directories that exist).
RemoveWorkdir ==
    /\ pc = "worker_wait"
    /\ cur \in workdirs
    /\ workdirs' = workdirs \ {cur}
    /\ UNCHANGED <<pc, idx, mem, err, files, dirs, logs, sessions, now,
                   history, runvars, call>>

\* state.rs 183-193: "blocked" is a status load accepts although no transition
\* writes it; between runs an operator marks a ticket of the state file Blocked.
ExternalBlock(t) ==
    /\ pc = "idle"
    /\ IsComplete(stateFile)
    /\ t \in DOMAIN stateFile.doc.tickets
    /\ StatusFromJson(stateFile.doc.tickets[t].status) \notin Terminal
    /\ fs' = [fs EXCEPT ![state_file].doc.tickets[t].status = StatusToJson("Blocked")]
    /\ UNCHANGED <<pc, idx, mem, err, saving, dirs, logs, workdirs,
                   sessions, now, history, runvars, call>>

\* ------------------------------------------------------------ load_status
\* BTreeMap<String, _>: the ticket ids in key order.
IdOrder == <<"A", "B">>
SortedIds(S) == SelectSeq(IdOrder, LAMBDA t : t \in S)

\* WorkflowStatusReport::from_state: the entries as a Vec, in key order.
from_state(state, path) ==
    [workflow_name |-> state.workflow_name,
     state_path |-> path,
     tickets |-> [i \in 1..Len(SortedIds(DOMAIN state.tickets)) |->
                    state.tickets[SortedIds(DOMAIN state.tickets)[i]]]]

NoReport == from_state(NoState, << >>)
Returned(kind, e, report) == [kind |-> kind, err |-> e, report |-> report]

\* Faulty variant: a report of a fresh state is made up when there is no file.
load_status_invents(m, f) ==
    IF ~Validate(m) THEN Returned("Err", "manifest", NoReport)
    ELSE IF ~f.exists
    THEN Returned("Some", "none", from_state(initialize(m), state_file))
    ELSE IF ~LoadOk(f) THEN Returned("Err", "parse", NoReport)
    ELSE Returned("Some", "none", from_state(Deserialize(f.doc), state_file))

\* load_status, lines 86-93: what it returns for manifest m when the file at
\* the state path is f.
load_status(m, f) ==
    IF ~Validate(m) THEN Returned("Err", "manifest", NoReport)
    ELSE IF ~f.exists THEN Returned("None", "none", NoReport)
    ELSE IF ~LoadOk(f) THEN Returned("Err", "parse", NoReport)
    ELSE Returned("Some", "none", from_state(Deserialize(f.doc), state_file))

\* The manifests a `status` command is given: one that passes validation and
\* one that does not (load_status reads nothing else of the manifest).
StatusManifests == {<<"B", "A">>, <<"A", "A">>}

\* A `status` command calls load_status, at any moment of a run or between runs.
LoadStatus(m) ==
    /\ call.op = "none"
    /\ call' = [op |-> "load_status", manifest |-> m,
                result |-> load_status(m, stateFile)]
    /\ UNCHANGED <<pc, idx, mem, err, files, dirs, logs, workdirs, sessions, now,
                   history, runvars>>

\* The command prints what load_status returned and exits.
StatusReturn ==
    /\ call.op = "load_status"
    /\ call' = NoCall
    /\ UNCHANGED <<pc, idx, mem, err, files, dirs, logs, workdirs, sessions, now,
                   history, runvars>>

\* Every step but the operator's edit of the state file.
NextClosed ==
    \/ \E m \in ManifestInputs, r \in BOOLEAN :
          \E w \in SUBSET Ids(m) : StartRun(m, r, w)
    \/ ProcessTicket
    \/ RunWorkerBegin
    \/ RunReviewBegin
    \/ SaveCreateTmp
    \/ SaveWriteTmp
    \/ SaveRename
    \/ SaveFail
    \/ LaunchSession
    \/ SpawnFail
    \/ LogWriteFail
    \/ \E code \in ExitOutcomes : WorkerExit(code)
    \/ \E code \in ExitOutcomes : ReviewExit(code)
    \/ Return
    \/ Crash
    \/ RemoveWorkdir

Next ==
    \/ NextClosed
    \/ \E t \in TicketIds : ExternalBlock(t)

Spec == Init /\ [][Next]_vars

\* Runs, crashes and resumes over a state file nobody else writes.
SpecClosed == Init /\ [][NextClosed]_vars

\* A step of run_workflow that returns no error, or the exit of the session it
\* awaits: the process keeps running and every launched session exits.
StepOfRun ==
    \/ ProcessTicket
    \/ RunWorkerBegin
    \/ RunReviewBegin
    \/ SaveCreateTmp
    \/ SaveWriteTmp
    \/ SaveRename
    \/ LaunchSession
    \/ \E code \in ExitOutcomes : WorkerExit(code)
    \/ \E code \in ExitOutcomes : ReviewExit(code)

SpecLive == Init /\ [][Next]_vars /\ WF_vars(StepOfRun)

\* The orchestrator together with `status` commands.
NextStatus ==
    \/ call.op = "none" /\ Next
    \/ \E m \in StatusManifests : LoadStatus(m)
    \/ StatusReturn

SpecStatus == Init /\ [][NextStatus]_vars

\* ------------------------------------------------------------ layout
\* Ticket ids as the manifest can spell them: any characters, up to MaxIdLen.
IdInputs == UNION {[1..n -> Alphabet] : n \in 0..MaxIdLen}

NoPaths == [ticket_dir |-> << >>, worker_log_path |-> << >>,
            review_log_path |-> << >>, patch_dir |-> << >>]

InitLayout ==
    /\ InitSystem
    /\ call \in {[op |-> "layout", id |-> cs, paths |-> NoPaths] : cs \in IdInputs}

\* The paths WorkflowLayout derives for a ticket id.
ComputePaths ==
    /\ call.op = "layout"
    /\ call' = [op |-> "layout_done", id |-> call.id,
                paths |-> [ticket_dir |-> ticket_dir(call.id),
                           worker_log_path |-> worker_log_path(call.id),
                           review_log_path |-> review_log_path(call.id),
                           patch_dir |-> patch_dir(call.id)]]
    /\ UNCHANGED <<pc, idx, mem, err, files, dirs, logs, workdirs, sessions, now,
                   history, runvars>>

NextLayout == ComputePaths

SpecLayout == InitLayout /\ [][NextLayout]_vars

\* ------------------------------------------------------------ views
LaunchedSet == {launched[i] : i \in 1..Len(launched)}
\* the state a load of the state file returns
Disk == Deserialize(stateFile.doc)
OnDisk(t) == IsComplete(stateFile) /\ t \in DOMAIN stateFile.doc.tickets
Loaded(t) == origin = "loaded" /\ t \in DOMAIN mem0.tickets
InRun == pc \in RunPcs \cup {"done", "failed"} /\ origin # "none"

\* ------------------------------------------------------------ claims

\* C1: a ticket persisted as NeedsReview or RunningReview when a resumed run
\* loads the state gets no worker session in that run, keeps its worker_log
\* (in memory and on disk), and has had its review session launched by the
\* time the run returns its report.
C1_ResumeAtReviewRunsOnlyReview ==
    \A t \in TicketIds :
        (Loaded(t) /\ mem0.tickets[t].status \in {"NeedsReview", "RunningReview"}) =>
            /\ <<t, "worker">> \notin LaunchedSet
            /\ InRun => Entry(t).worker_log = mem0.tickets[t].worker_log
            /\ OnDisk(t) /\ Disk.tickets[t].worker_log = mem0.tickets[t].worker_log
            /\ (pc = "done" /\ t \in Ids(manifest)) => <<t, "review">> \in LaunchedSet

C1_Witness ==
    \E t \in TicketIds :
        /\ Loaded(t)
        /\ mem0.tickets[t].status = "NeedsReview"
        /\ pc = "done"
        /\ launched = << <<t, "review">> >>
        /\ Entry(t).status = "Complete"

\* a step of a run leaves the target as it was or replaces it by the complete new state
TargetStepIsAtomic ==
    pc \in RunPcs =>
        \/ fs'[state_file] = fs[state_file]
        \/ saving /\ fs'[state_file] = FileOf(Serialize(mem), Chunks)

\* C2: the file at the state path is never half-written: whenever it exists it
\* is a complete document, a step of a run changes it only to the complete
\* serialization of the run's state, and a file that is not complete is at
\* the ".tmp" path.
C2_TargetNeverPartial ==
    /\ [](\A p \in Paths :
            (fs[p].exists /\ ~IsComplete(fs[p])) => p = state_file \o <<".tmp">>)
    /\ [][TargetStepIsAtomic]_vars

C2_Witness ==
    /\ pc = "idle"
    /\ crashed
    /\ IsComplete(stateFile)
    /\ tmpFile.exists
    /\ ~IsComplete(tmpFile)
    /\ \E t \in DOMAIN Disk.tickets : Disk.tickets[t].status = "NeedsReview"

\* the ticket the loop is at, if any
AtTicket(t) == idx <= Len(manifest) /\ manifest[idx] = t
\* the run has replaced or adopted the state file: a fresh run only from its
\* first save on
PersistedByRun ==
    \/ origin = "loaded"
    \/ origin = "fresh" /\ ~(idx = 1 /\ pc \in {"loop", "run_worker", "worker_save_running"})
RunningStatus(step) == IF step = "worker" THEN "RunningWorker" ELSE "RunningReview"

\* C3: at every point of a run where the process can die, the state file
\* holds, for every ticket other than the one being processed, exactly the
\* entry the run has in memory; and in a resumed run a session is launched a
\* second time (it was launched by the previous run too) only for the one
\* step that run left persisted as running, never a worker for a ticket
\* persisted as NeedsReview or later, and nothing for a terminal ticket.
C3_CrashLosesOnlyTheStepInFlight ==
    /\ (pc \in RunPcs /\ PersistedByRun) =>
          /\ IsComplete(stateFile)
          /\ \A t \in DOMAIN Disk.tickets :
                ~AtTicket(t) => (t \in DOMAIN mem.tickets /\ Disk.tickets[t] = Entry(t))
    /\ origin = "loaded" =>
          /\ \A s \in LaunchedSet \cap prevLaunched :
                mem0.tickets[s[1]].status = RunningStatus(s[2])
          /\ Cardinality(LaunchedSet \cap prevLaunched) <= 1
          /\ \A s \in LaunchedSet :
                /\ mem0.tickets[s[1]].status \notin Terminal
                /\ s[2] = "worker" =>
                      mem0.tickets[s[1]].status \in {"Pending", "RunningWorker"}

C3_Witness ==
    /\ crashed
    /\ origin = "loaded"
    /\ pc = "done"
    /\ manifest = <<"B", "A">>
    /\ mem0.tickets["B"].status = "Complete"
    /\ Entry("B") = mem0.tickets["B"]
    /\ <<"B", "worker">> \in prevLaunched
    /\ <<"A", "worker">> \in prevLaunched
    /\ launched = << <<"A", "worker">>, <<"A", "review">> >>

LogOf(e, step) == IF step = "worker" THEN e.worker_log ELSE e.review_log
LogPath(t, step) == IF step = "worker" THEN worker_log_path(Chars(t)) ELSE review_log_path(Chars(t))

\* C4: while a session is in flight for a ticket the state file records the
\* ticket as RunningWorker / RunningReview with that step's log path; and
\* whenever the run is about to launch a session or to take the next ticket,
\* the outcome of every session that exited in this run is on disk.
C4_CheckpointsAroundSessions ==
    /\ \A s \in sessions :
          /\ OnDisk(s[1])
          /\ Disk.tickets[s[1]].status = RunningStatus(s[2])
          /\ LogOf(Disk.tickets[s[1]], s[2]) = Some(LogPath(s[1], s[2]))
    /\ pc \in {"worker_launch", "review_launch"} =>
          IsComplete(stateFile) /\ Disk = mem
    /\ pc \in {"loop", "run_worker", "run_review", "worker_launch", "review_launch",
               "final_save", "done"} =>
          \A r \in results : OnDisk(r[1]) /\ Disk.tickets[r[1]] = Entry(r[1])

C4_Witness ==
    /\ sessions = {<<"A", "review">>}
    /\ manifest = <<"B", "A">>
    /\ <<"B", "worker", Some(1)>> \in results
    /\ <<"A", "worker", Some(0)>> \in results
    /\ Disk.tickets["A"].status = "RunningReview"
    /\ Disk.tickets["B"].status = "Failed"

\* within a run, an entry that is terminal does not change any more
TerminalEntriesAreFrozen ==
    \A t \in TicketIds :
        (InRun /\ InRun' /\ t \in DOMAIN mem.tickets /\ Entry(t).status \in Terminal) =>
            /\ mem'.tickets[t] = mem.tickets[t]
            /\ \A s \in sessions' \ sessions : s[1] # t

\* C5: a ticket that is Complete, Failed or Blocked is skipped: once terminal
\* its entry never changes within the run and no session starts for it; and a
\* ticket a resumed run loaded as terminal gets no session in that run and
\* keeps every field, in memory and in the state file.
C5_TerminalTicketsAreSkipped ==
    /\ [][TerminalEntriesAreFrozen]_vars
    /\ [](\A t \in TicketIds :
            (Loaded(t) /\ mem0.tickets[t].status \in Terminal) =>
                /\ \A s \in LaunchedSet : s[1] # t
                /\ InRun => Entry(t) = mem0.tickets[t]
                /\ OnDisk(t) /\ Disk.tickets[t] = mem0.tickets[t])

C5_Witness ==
    /\ origin = "loaded"
    /\ pc = "done"
    /\ manifest = <<"B", "A">>
    /\ mem0.tickets["B"].status = "Blocked"
    /\ IsSome(mem0.tickets["B"].worker_log)
    /\ Entry("B") = mem0.tickets["B"]
    /\ Disk.tickets["B"] = mem0.tickets["B"]
    /\ launched = << <<"A", "worker">>, <<"A", "review">> >>
    /\ Entry("A").status = "Complete"

WorkerFailedNote(code) == Note("Worker failed with status", FormatCode(code))
ReviewFailedNote(code) == Note("Review failed with status", FormatCode(code))

\* the step in which a worker session exits with a status other than 0
WorkerFailureIsRecorded ==
    \A code \in ExitOutcomes \ {Some(0)} :
        (pc = "worker_wait" /\ <<cur, "worker", code>> \in results' \ results) =>
            /\ Entry(cur).status = "RunningWorker"
            /\ mem'.tickets[cur].status = "Failed"
            /\ mem'.tickets[cur].finished_at = Some(now)
            /\ mem'.tickets[cur].note = WorkerFailedNote(code)
            /\ pc' = "worker_save_result"
            /\ err' = "none"

\* run_review for a Failed ticket returns Ok at once: the loop goes on
FailedTicketIsPassedOver ==
    (pc = "run_review" /\ Entry(cur).status = "Failed" /\ pc' # pc /\ pc' # "idle") =>
        /\ pc' = AdvancePc
        /\ idx' = idx + 1
        /\ err' = "none"
        /\ UNCHANGED <<mem, sessions, launched>>

\* C6: a worker session that exits with a status other than 0 takes its ticket
\* from RunningWorker to Failed with finished_at set and the exit status in
\* the note; this is no error of the run, which goes on to the next ticket
\* without launching a review for the failed one; and a resumed run that
\* loads the ticket as Failed launches nothing for it and leaves it as it is.
C6_WorkerFailureIsTerminal ==
    /\ [][WorkerFailureIsRecorded /\ FailedTicketIsPassedOver]_vars
    /\ [](\A t \in TicketIds :
            /\ (InRun /\ \E code \in ExitOutcomes \ {Some(0)} :
                            <<t, "worker", code>> \in results) =>
                  /\ <<t, "review">> \notin LaunchedSet
                  /\ Entry(t).status = "Failed"
                  /\ IsSome(Entry(t).finished_at)
            /\ (Loaded(t) /\ mem0.tickets[t].status = "Failed") =>
                  /\ \A s \in LaunchedSet : s[1] # t
                  /\ InRun => Entry(t) = mem0.tickets[t])

C6_Witness ==
    /\ origin = "loaded"
    /\ pc = "done"
    /\ manifest = <<"B", "A">>
    /\ mem0.tickets["B"].status = "Failed"
    /\ mem0.tickets["B"].note = WorkerFailedNote(Some(1))
    /\ mem0.tickets["A"].status = "Pending"
    /\ results = {<<"A", "worker", None>>}
    /\ launched = << <<"A", "worker">> >>
    /\ Entry("A").note = WorkerFailedNote(None)

\* position of a ticket id in the manifest of the run (0 if absent)
Pos(t) == IF t \in Ids(manifest)
          THEN CHOOSE i \in 1..Len(manifest) : manifest[i] = t
          ELSE 0

\* C7: at most one session is in flight; sessions are launched in manifest
\* order, each at most once per run, a ticket's worker before its review;
\* when a session of a ticket is launched every earlier ticket of the manifest
\* is terminal; and a review launched after a worker of the same run starts
\* only when that worker has exited 0, its log is written and no worker
\* session is in flight.
C7_SessionsAreSequential ==
    /\ Cardinality(sessions) <= 1
    /\ sessions \subseteq LaunchedSet
    /\ \A i, j \in 1..Len(launched) :
          i < j =>
             /\ Pos(launched[i][1]) <= Pos(launched[j][1])
             /\ launched[i] # launched[j]
             /\ launched[i][1] = launched[j][1] =>
                   (launched[i][2] = "worker" /\ launched[j][2] = "review")
    /\ \A s \in LaunchedSet :
          /\ Pos(s[1]) >= 1
          /\ \A k \in 1..(Pos(s[1]) - 1) : Entry(manifest[k]).status \in Terminal
    /\ \A t \in TicketIds :
          (<<t, "review">> \in LaunchedSet /\ <<t, "worker">> \in LaunchedSet) =>
             /\ <<t, "worker", Some(0)>> \in results
             /\ worker_log_path(Chars(t)) \in logs
             /\ <<t, "worker">> \notin sessions

C7_Witness ==
    /\ manifest = <<"B", "A">>
    /\ launched = << <<"B", "worker">>, <<"B", "review">>, <<"A", "worker">>,
                     <<"A", "review">> >>
    /\ sessions = {<<"A", "review">>}

\* a step (worker, or a review that applies) is about to begin for a ticket
\* whose working directory does not exist
StepBeginsWithoutWorkdir ==
    /\ \/ pc = "run_worker"
       \/ pc = "run_review" /\ ReviewApplies(Entry(cur).status)
    /\ cur \notin workdirs

\* the step does not begin: the run fails, the entry and the state file stay
MissingWorkdirAbortsStep ==
    (StepBeginsWithoutWorkdir /\ pc' # pc /\ pc' # "idle") =>
        /\ pc' = "failed"
        /\ err' = "workdir"
        /\ mem' = mem
        /\ fs' = fs
        /\ sessions' = {}
        /\ launched' = launched

\* a run that has failed only returns: it takes no further step
FailedRunOnlyReturns ==
    pc = "failed" => (pc' \in {"failed", "idle"} /\ sessions' = {} /\ launched' \in {launched, << >>})

\* C8: when the working directory of a ticket does not exist as one of its
\* steps is about to begin, run_workflow fails with the working-directory
\* error without marking the ticket running, recording a log path, writing
\* the state file or launching a session; and a failed run launches nothing
\* more (neither for this ticket nor for a later one).
C8_MissingWorkdirAbortsRun ==
    /\ [][MissingWorkdirAbortsStep /\ FailedRunOnlyReturns]_vars
    /\ [](pc = "failed" /\ err = "workdir" =>
            /\ sessions = {}
            /\ idx <= Len(manifest)
            /\ cur \notin workdirs
            /\ \A s \in LaunchedSet : Pos(s[1]) <= idx
            /\ Entry(cur).status \in {"Pending", "RunningWorker", "NeedsReview",
                                      "RunningReview"}
            /\ (Entry(cur).status = "Pending" =>
                   Entry(cur) = PendingEntry(cur) /\ <<cur, "worker">> \notin LaunchedSet)
            /\ (Entry(cur).status \in {"RunningWorker", "RunningReview"} =>
                   Entry(cur) = mem0.tickets[cur])
            /\ <<cur, "review">> \notin LaunchedSet)

C8_Witness ==
    /\ pc = "failed"
    /\ err = "workdir"
    /\ manifest = <<"B", "A">>
    /\ idx = 1
    /\ Entry("B").status = "NeedsReview"
    /\ Entry("B").review_log = None
    /\ launched = << <<"B", "worker">> >>
    /\ Entry("A") = PendingEntry("A")

ResultCodes(t, step) == {r[3] : r \in {x \in results : x[1] = t /\ x[2] = step}}

\* C9: when a run that started from a fresh state returns its report, every
\* ticket of the manifest had exactly one worker session, its status is
\* Complete exactly if its worker and its review both exited 0, and otherwise
\* Failed with the note of the step that failed carrying that step's exit
\* status; the statuses of the other tickets play no part.
C9_FinalStatusFollowsExitCodes ==
    (pc = "done" /\ origin = "fresh") =>
        \A t \in Ids(manifest) :
            /\ Cardinality(ResultCodes(t, "worker")) = 1
            /\ Cardinality(ResultCodes(t, "review")) <= 1
            /\ LET w == CHOOSE c \in ResultCodes(t, "worker") : TRUE
               IN  IF w # Some(0)
                   THEN /\ Entry(t).status = "Failed"
                        /\ Entry(t).note = WorkerFailedNote(w)
                        /\ ResultCodes(t, "review") = {}
                   ELSE /\ Cardinality(ResultCodes(t, "review")) = 1
                        /\ LET r == CHOOSE c \in ResultCodes(t, "review") : TRUE
                           IN  IF r = Some(0)
                               THEN Entry(t).status = "Complete"
                               ELSE /\ Entry(t).status = "Failed"
                                    /\ Entry(t).note = ReviewFailedNote(r)
            /\ OnDisk(t) /\ Disk.tickets[t] = Entry(t)

C9_Witness ==
    /\ pc = "done"
    /\ origin = "fresh"
    /\ manifest = <<"B", "A">>
    /\ results = {<<"B", "worker", Some(0)>>, <<"B", "review", Some(0)>>,
                  <<"A", "worker", Some(1)>>}
    /\ Entry("B").status = "Complete"
    /\ Entry("A").status = "Failed"
    /\ Entry("A").note = WorkerFailedNote(Some(1))

\* what sync_with_manifest does to a state s for a manifest m
SyncContract(s, m) ==
    LET s2 == sync_with_manifest(s, m) IN
    /\ DOMAIN s2.tickets = (DOMAIN s.tickets) \cup Ids(m)
    /\ s2.workflow_name = s.workflow_name
    /\ \A t \in DOMAIN s.tickets : s2.tickets[t] = s.tickets[t]
    /\ \A t \in Ids(m) \ DOMAIN s.tickets :
          /\ s2.tickets[t].ticket_id = t
          /\ s2.tickets[t].status = "Pending"
          /\ s2.tickets[t].worker_log = None /\ s2.tickets[t].review_log = None
          /\ s2.tickets[t].note = None
          /\ s2.tickets[t].started_at = None /\ s2.tickets[t].finished_at = None
    /\ sync_with_manifest(s2, m) = s2

\* C10: sync_with_manifest, on every state a starting run can load from the
\* state file and for every manifest, adds a fresh Pending entry for each
\* manifest id that is missing, keeps every existing entry (also of ids that
\* are not in the manifest) and is idempotent; the state a resumed run starts
\* from has an entry for every manifest id; and a resumed run leaves the
\* entries of ids outside its manifest as they were loaded, in memory and in
\* the state file.
C10_SyncKeepsEntriesAddsPending ==
    /\ (pc = "idle" /\ IsComplete(stateFile)) =>
          \A m \in ManifestInputs : SyncContract(Disk, m)
    /\ origin = "loaded" =>
          /\ Ids(manifest) \subseteq DOMAIN mem0.tickets
          /\ InRun => DOMAIN mem.tickets = DOMAIN mem0.tickets
          /\ \A t \in (DOMAIN mem0.tickets) \ Ids(manifest) :
                /\ InRun => Entry(t) = mem0.tickets[t]
                /\ OnDisk(t) /\ Disk.tickets[t] = mem0.tickets[t]
          /\ \A t \in Ids(manifest) :
                ~OnDisk(t) => mem0.tickets[t] = PendingEntry(t)

C10_Witness ==
    /\ origin = "loaded"
    /\ manifest = <<"B", "A">>
    /\ pc = "loop"
    /\ idx = 1
    /\ ~OnDisk("B")
    /\ OnDisk("A")
    /\ Disk.tickets["A"].status = "Complete"
    /\ Entry("A") = Disk.tickets["A"]
    /\ Entry("B") = PendingEntry("B")

\* what initialize returns for a manifest m
InitializeContract(s, m) ==
    /\ DOMAIN s.tickets = Ids(m)
    /\ \A t \in Ids(m) :
          /\ s.tickets[t].ticket_id = t
          /\ s.tickets[t].status = "Pending"
          /\ s.tickets[t].worker_log = None /\ s.tickets[t].review_log = None
          /\ s.tickets[t].note = None
          /\ s.tickets[t].started_at = None /\ s.tickets[t].finished_at = None

\* C11: for every manifest that passes validation (at least one ticket, no
\* repeated id) initialize returns a state whose tickets are exactly the
\* manifest's ids, each with its own ticket_id, status Pending, no worker or
\* review log, no note and no started_at or finished_at; this is the state a
\* run that does not reuse a state file starts from.
C11_InitializeGivesPendingEntries ==
    /\ \A m \in ManifestInputs : Validate(m) => InitializeContract(initialize(m), m)
    /\ origin = "fresh" =>
          /\ Validate(manifest)
          /\ InitializeContract(mem0, manifest)
          /\ pc = "loop" /\ idx = 1 => mem = mem0

C11_Witness ==
    /\ origin = "fresh"
    /\ manifest = <<"B", "A">>
    /\ pc = "loop"
    /\ idx = 1
    /\ DOMAIN mem.tickets = {"A", "B"}
    /\ Entry("B").status = "Pending"
    /\ IsComplete(stateFile)
    /\ ~resume

HasNoTickets(m) == Len(m) = 0
HasRepeatedId(m) == \E i, j \in 1..Len(m) : i < j /\ m[i] = m[j]

\* a run that is handed such a manifest fails at once and touches nothing
RejectedBeforeExecution ==
    (pc = "idle" /\ pc' # "idle"
        /\ (HasNoTickets(manifest') \/ HasRepeatedId(manifest'))) =>
            /\ pc' = "failed"
            /\ err' = "manifest"
            /\ UNCHANGED <<fs, saving, rootExists, ticketDirs, logs, sessions,
                           launched, mem>>

\* and it only returns its error
RejectedRunOnlyReturns ==
    (pc = "failed" /\ err = "manifest") =>
        /\ pc' = "idle"
        /\ UNCHANGED <<fs, rootExists, ticketDirs, logs, sessions>>

\* C12: a manifest with no ticket, or with two tickets of the same id, does
\* not pass validation, and a run_workflow that is handed one fails with the
\* manifest error before anything is executed: the artifacts root, the ticket
\* directories, the state file, its temporary file and the logs are exactly as
\* they were before the call, and no session is launched.
C12_InvalidManifestRejectedFirst ==
    /\ [](\A m \in ManifestInputs :
            (HasNoTickets(m) \/ HasRepeatedId(m)) => ~Validate(m))
    /\ [][RejectedBeforeExecution /\ RejectedRunOnlyReturns]_vars
    /\ [](err = "manifest" =>
            /\ pc = "failed"
            /\ HasNoTickets(manifest) \/ HasRepeatedId(manifest)
            /\ launched = << >> /\ sessions = {}
            /\ ~saving)

C12_Witness ==
    /\ pc = "failed"
    /\ err = "manifest"
    /\ manifest = <<"A", "A">>
    /\ IsComplete(stateFile)
    /\ Disk.tickets["A"].status = "RunningWorker"
    /\ launched = << >>

LaunchPcs == {"worker_launch", "worker_wait", "review_launch", "review_wait"}

\* While launcher.run is being called, the ticket changes only when a session
\* has exited; an error of the launcher changes nothing and ends the run.
LauncherErrorAppliesNothing ==
    /\ (pc \in LaunchPcs /\ pc' # "idle") =>
          \/ UNCHANGED <<mem, fs, idx, results>>
          \/ /\ pc \in {"worker_wait", "review_wait"}
             /\ pc' \in {"worker_save_result", "review_save_result"}
             /\ \E code \in ExitOutcomes :
                   results' = results \cup {<<cur, StepOf(pc), code>>}
    /\ (pc \in LaunchPcs /\ pc' = "failed") =>
          /\ err' \in {"spawn", "log"}
          /\ sessions' = {}
          /\ UNCHANGED <<mem, fs, idx, results, launched>>
    /\ (pc = "failed" /\ err \in {"spawn", "log"}) =>
          /\ pc' = "idle"
          /\ UNCHANGED <<fs, logs>>

\* C13: when launcher.run returns an error (the executable cannot be spawned,
\* or the log of the session cannot be written) run_workflow returns that
\* error: the ticket keeps the running status that was saved before the
\* launch, in memory and in the state file (it is not marked Failed or given
\* any other outcome), the tickets after it in the manifest are as they were
\* when the run started, and nothing more is launched or written.
C13_LauncherErrorAbortsRun ==
    /\ [][LauncherErrorAppliesNothing]_vars
    /\ [](pc = "failed" /\ err \in {"spawn", "log"} =>
            /\ idx <= Len(manifest)
            /\ Entry(cur).status \in {"RunningWorker", "RunningReview"}
            /\ Entry(cur).finished_at = mem0.tickets[cur].finished_at
            /\ Entry(cur).note = None
            /\ OnDisk(cur) /\ Disk.tickets[cur] = Entry(cur)
            /\ sessions = {}
            /\ \A i \in (idx + 1)..Len(manifest) :
                  /\ Entry(manifest[i]) = mem0.tickets[manifest[i]]
                  /\ \A s \in LaunchedSet : s[1] # manifest[i]
            /\ err = "spawn" =>
                  /\ <<cur, "review">> \notin LaunchedSet
                  /\ Entry(cur).status = "RunningWorker" =>
                        <<cur, "worker">> \notin LaunchedSet)

C13_Witness ==
    /\ pc = "failed"
    /\ err = "spawn"
    /\ manifest = <<"B", "A">>
    /\ idx = 1
    /\ Disk.tickets["B"].status = "RunningReview"
    /\ launched = << <<"B", "worker">> >>
    /\ Entry("A").status = "Pending"

\* launcher.run returning the result of a session that exited with `code`
ReturnsResult(code) ==
    /\ results' = results \cup {<<cur, StepOf(pc), code>>}
    /\ <<cur, StepOf(pc)>> \notin sessions'
    /\ LogPath(cur, StepOf(pc)) \in logs'
    /\ err' = "none"
    /\ pc' = IF pc = "worker_wait" THEN "worker_save_result" ELSE "review_save_result"
    /\ (mem'.tickets[cur].status = "Failed") <=> ~Success(code)

\* a session that has exited hands back a result, with its log written
ExitWritesLog ==
    (pc \in {"worker_wait", "review_wait"}
        /\ pc' \in {"worker_save_result", "review_save_result"}) =>
            \E code \in ExitOutcomes : ReturnsResult(code)

\* C14: when the process of a session has been spawned and has exited,
\* launcher.run returns a result with the log of the session written at the
\* log path of the request, whatever the exit status (zero, non-zero, or none);
\* an exit status other than zero is handed back as a result with success =
\* false, from which the step is marked Failed, and not as an error of the
\* run; every result the run has received has its log on disk.
C14_ExitedSessionIsLogged ==
    /\ [][ExitWritesLog]_vars
    /\ [](pc \in {"worker_wait", "review_wait"} =>
            \A code \in ExitOutcomes : ENABLED (Next /\ ReturnsResult(code)))
    /\ [](\A r \in results :
            /\ LogPath(r[1], r[2]) \in logs
            /\ ~Success(r[3]) => (InRun => Entry(r[1]).status = "Failed"))

C14_Witness ==
    /\ pc = "worker_save_result"
    /\ manifest = <<"A">>
    /\ results = {<<"A", "worker", Some(1)>>}
    /\ logs = {worker_log_path(Chars("A"))}
    /\ Entry("A").status = "Failed"
    /\ err = "none"

\* everything but the call itself
world == <<pc, manifest, resume, idx, mem, origin, mem0, err, fs, saving,
           rootExists, ticketDirs, logs, workdirs, sessions, now, runs,
           launched, prevLaunched, results, crashed, passed>>

\* C15: load_status of a valid manifest returns Some(report of the state the
\* state file holds) when the state file exists and None when it does not
\* (it makes up no state), whether or not a run is going on; and the call
\* changes nothing: the state file, its temporary file, the directories and
\* the logs are as before, and no session is launched.
C15_LoadStatusOnlyReads ==
    /\ [][call'.op = "load_status" => UNCHANGED world]_vars
    /\ [](call.op = "load_status" =>
            /\ ~Validate(call.manifest) => call.result.kind = "Err"
            /\ Validate(call.manifest) =>
                  /\ ~stateFile.exists => call.result = Returned("None", "none", NoReport)
                  /\ stateFile.exists =>
                        /\ call.result.kind = "Some"
                        /\ call.result.report.workflow_name = Disk.workflow_name
                        /\ call.result.report.state_path = state_file
                        /\ {call.result.report.tickets[i] :
                                i \in 1..Len(call.result.report.tickets)}
                              = {Disk.tickets[t] : t \in DOMAIN Disk.tickets}
                        /\ Len(call.result.report.tickets)
                              = Cardinality(DOMAIN Disk.tickets))

C15_Witness ==
    /\ call.op = "load_status"
    /\ call.manifest = <<"B", "A">>
    /\ call.result.kind = "Some"
    /\ Len(call.result.report.tickets) = 2
    /\ call.result.report.tickets[1].status = "Complete"
    /\ call.result.report.tickets[2].status = "RunningWorker"
    /\ pc = "worker_wait"
    /\ saving = FALSE

\* save has returned Ok: a load of the same path gives back what was saved
SaveThenLoad ==
    (pc \in SavePcs /\ saving /\ ~saving' /\ pc' # "idle") =>
        /\ LoadOk(fs'[state_file])
        /\ Deserialize(fs'[state_file].doc) = mem
        /\ mem' = mem

\* C16: whenever save has returned Ok, a load of the same path returns a
\* state equal to the saved one (workflow_name and, for every ticket, status,
\* worker_log, review_log, note, started_at and finished_at), whatever the
\* statuses of its tickets; each of the seven status values is read back
\* from its JSON name as itself, and what a load returned is written back as
\* the same document.
C16_SaveLoadRoundTrip ==
    /\ [][SaveThenLoad]_vars
    /\ [](\A st \in Statuses : StatusFromJson(StatusToJson(st)) = st)
    /\ [](\A t \in DOMAIN mem.tickets :
            EntryFromJson(EntryToJson(Entry(t))) = Entry(t))
    /\ [](IsComplete(stateFile) => Serialize(Disk) = stateFile.doc)

C16_Witness ==
    /\ pc = "review_launch"
    /\ manifest = <<"A">>
    /\ DOMAIN mem.tickets = {"A", "B"}
    /\ Entry("B").status = "Blocked"
    /\ Entry("B").note # None
    /\ Entry("A").status = "RunningReview"
    /\ Entry("A").worker_log # None /\ Entry("A").started_at # None
    /\ IsComplete(stateFile)
    /\ Disk = mem

\* C17: for every ticket id, ticket_dir is one component below the root,
\* "ticket-" followed by the id with each character outside [A-Za-z0-9_-]
\* replaced by "_" and every other character kept where it is (so as long as
\* the id, and free of path separators); worker_log_path, review_log_path and
\* patch_dir are that directory joined with "worker.log", "review.log" and
\* "patches".
C17_TicketPathsAreSanitized ==
    call.op = "layout_done" =>
        LET id == call.id
            dir == call.paths.ticket_dir
        IN  /\ Len(dir) = 1
            /\ Len(dir[1]) = 1 + Len(id)
            /\ dir[1][1] = "ticket-"
            /\ \A i \in 1..Len(id) :
                  /\ id[i] \in {"A", "B", "z", "7", "-", "_"} => dir[1][i + 1] = id[i]
                  /\ id[i] \in {"/", "\\", ".", " "} => dir[1][i + 1] = "_"
                  /\ dir[1][i + 1] \notin {"/", "\\"}
            /\ call.paths.worker_log_path = dir \o <<"worker.log">>
            /\ call.paths.review_log_path = dir \o <<"review.log">>
            /\ call.paths.patch_dir = dir \o <<"patches">>

C17_Witness ==
    /\ call.op = "layout_done"
    /\ call.id = <<"A", "/", ".">>
    /\ call.paths.ticket_dir = << <<"ticket-", "A", "_", "_">> >>
    /\ call.paths.worker_log_path = << <<"ticket-", "A", "_", "_">>, "worker.log" >>

\* the transitions of the table, as <<from, to>>
TransitionTable ==
    {<<"Pending", "RunningWorker">>, <<"RunningWorker", "RunningWorker">>,
     <<"RunningWorker", "NeedsReview">>, <<"RunningWorker", "Failed">>,
     <<"NeedsReview", "RunningReview">>, <<"RunningReview", "RunningReview">>,
     <<"RunningReview", "Complete">>, <<"RunningReview", "Failed">>}

\* the transition is the one of the operation that is under way
AppliedBy(from, to) ==
    CASE pc = "run_worker" ->
            from \in {"Pending", "RunningWorker"} /\ to = "RunningWorker"
      [] pc = "worker_wait" ->
            /\ from = "RunningWorker"
            /\ \E code \in ExitOutcomes :
                  /\ results' = results \cup {<<cur, "worker", code>>}
                  /\ to = IF code = Some(0) THEN "NeedsReview" ELSE "Failed"
      [] pc = "run_review" ->
            from \in {"NeedsReview", "RunningReview"} /\ to = "RunningReview"
      [] pc = "review_wait" ->
            /\ from = "RunningReview"
            /\ \E code \in ExitOutcomes :
                  /\ results' = results \cup {<<cur, "review", code>>}
                  /\ to = IF code = Some(0) THEN "Complete" ELSE "Failed"
      [] OTHER -> FALSE

\* during a run an entry changes only by a transition of the table, applied
\* to the ticket being processed
EntriesFollowTable ==
    (pc # "idle" /\ pc' # "idle") =>
        /\ DOMAIN mem'.tickets = DOMAIN mem.tickets
        /\ \A t \in DOMAIN mem.tickets :
              mem'.tickets[t] # mem.tickets[t] =>
                 /\ t = cur
                 /\ <<mem.tickets[t].status, mem'.tickets[t].status>> \in TransitionTable
                 /\ AppliedBy(mem.tickets[t].status, mem'.tickets[t].status)

\* a resumed run starts every persisted ticket from its persisted status
LoadKeepsStatus ==
    (pc = "idle" /\ origin' = "loaded") =>
        \A t \in DOMAIN Disk.tickets :
            mem'.tickets[t].status = Disk.tickets[t].status

\* and what a resumed run writes to the state file moves the persisted status
\* of a ticket along the table
PersistedFollowsTable ==
    (origin = "loaded" /\ pc # "idle" /\ fs'[state_file] # fs[state_file]) =>
        /\ IsComplete(fs'[state_file])
        /\ \A t \in DOMAIN Disk.tickets :
              LET to == Deserialize(fs'[state_file].doc).tickets[t].status IN
              \/ to = Disk.tickets[t].status
              \/ <<Disk.tickets[t].status, to>> \in TransitionTable

\* C18: the orchestrator changes the status of a ticket only along the table:
\* Pending or RunningWorker to RunningWorker when the worker step begins,
\* RunningWorker to NeedsReview (worker exit 0) or Failed (otherwise),
\* NeedsReview or RunningReview to RunningReview when the review step begins,
\* RunningReview to Complete (review exit 0) or Failed (otherwise). This holds
\* for every change of an entry during a run, a resumed run starts each
\* ticket from the status the state file holds, and the statuses it writes
\* back follow the table as well.
C18_StatusChangesFollowTable ==
    [][EntriesFollowTable /\ LoadKeepsStatus /\ PersistedFollowsTable]_vars

C18_Witness ==
    /\ pc = "review_save_result"
    /\ origin = "loaded"
    /\ crashed
    /\ manifest = <<"A">>
    /\ mem0.tickets["A"].status = "RunningReview"
    /\ Entry("A").status = "Failed"
    /\ Disk.tickets["A"].status = "RunningReview"

\* C19: in one run no session is launched twice: each ticket gets at most one
\* worker session and at most one review session, the worker first; a ticket
\* whose step ended in Failed stays Failed for the rest of the run and gets no
\* further session (a failed worker is followed by no review).
C19_OneSessionPerStepPerRun ==
    /\ \A i, j \in 1..Len(launched) : launched[i] = launched[j] => i = j
    /\ \A t \in TicketIds :
          Cardinality({i \in 1..Len(launched) : launched[i][1] = t}) <= 2
    /\ \A r \in results :
          /\ \E i \in 1..Len(launched) : launched[i] = <<r[1], r[2]>>
          /\ ~Success(r[3]) =>
                /\ InRun => Entry(r[1]).status = "Failed"
                /\ pc \in LaunchPcs => cur # r[1]
                /\ r[2] = "worker" => <<r[1], "review">> \notin LaunchedSet
                /\ \A i, j \in 1..Len(launched) :
                      (launched[i] = <<r[1], r[2]>> /\ launched[j][1] = r[1]) => j <= i

C19_Witness ==
    /\ pc = "done"
    /\ manifest = <<"B", "A">>
    /\ launched = << <<"B", "worker">>, <<"A", "worker">>, <<"A", "review">> >>
    /\ <<"B", "worker", Some(1)>> \in results
    /\ <<"A", "review", Some(1)>> \in results
    /\ Entry("B").status = "Failed"
    /\ Entry("A").status = "Failed"

\* what mark_running and mark_finished do to an entry e at time c
MarkContract(e, c) ==
    /\ \A st \in {"RunningWorker", "RunningReview"} :
          LET r == mark_running(e, st, c) IN
          /\ r.status = st
          /\ r.note = None
          /\ r.started_at = IF e.started_at = None THEN Some(c) ELSE e.started_at
          /\ r.finished_at = e.finished_at
          /\ r.worker_log = e.worker_log /\ r.review_log = e.review_log
          /\ r.ticket_id = e.ticket_id
    /\ \A st \in {"Complete", "Failed"}, n \in {None, Note("Review passed", "")} :
          LET f == mark_finished(e, st, n, c) IN
          /\ f.status = st
          /\ f.note = n
          /\ f.finished_at = Some(c)
          /\ f.started_at = e.started_at
          /\ f.worker_log = e.worker_log /\ f.review_log = e.review_log
          /\ f.ticket_id = e.ticket_id

\* once set, the started_at of an entry stays as it is: through the steps of a
\* run, through the load of a resumed run, and in what a resumed run saves
StartedAtIsKept ==
    /\ (pc # "idle" /\ pc' # "idle") =>
          \A t \in DOMAIN mem.tickets :
             /\ mem.tickets[t].started_at # None =>
                   mem'.tickets[t].started_at = mem.tickets[t].started_at
             /\ mem'.tickets[t].started_at \in {mem.tickets[t].started_at, Some(now)}
    /\ (pc = "idle" /\ origin' = "loaded") =>
          \A t \in DOMAIN Disk.tickets :
             mem'.tickets[t].started_at = Disk.tickets[t].started_at
    /\ (origin = "loaded" /\ pc # "idle" /\ IsComplete(fs'[state_file])) =>
          \A t \in DOMAIN Disk.tickets :
             Disk.tickets[t].started_at # None =>
                Deserialize(fs'[state_file].doc).tickets[t].started_at
                   = Disk.tickets[t].started_at

\* a step that begins marks the ticket running: the note is cleared, and
\* started_at is set if it was not; an outcome that finishes the ticket sets
\* finished_at
MarksAreApplied ==
    /\ (pc \in {"run_worker", "run_review"}
           /\ pc' \in {"worker_save_running", "review_save_running"}) =>
          /\ mem'.tickets[cur].note = None
          /\ mem'.tickets[cur].started_at # None
          /\ Entry(cur).started_at = None => mem'.tickets[cur].started_at = Some(now)
          /\ mem'.tickets[cur].finished_at = Entry(cur).finished_at
    /\ (pc \in {"worker_wait", "review_wait"} /\ pc' \notin {"idle", "failed"}
           /\ mem'.tickets[cur].status \in {"Complete", "Failed"}) =>
          /\ mem'.tickets[cur].finished_at = Some(now)
          /\ mem'.tickets[cur].started_at = Entry(cur).started_at

\* C20: started_at is set when a ticket is first marked running and is not
\* changed after that: a later mark_running (the review step, or a step run
\* again by a resumed run after a crash) and mark_finished keep it, in memory
\* and in the state file; mark_running always clears the note and
\* mark_finished always sets finished_at.
C20_StartedAtIsSetOnce ==
    /\ [](\A t \in DOMAIN mem.tickets : MarkContract(Entry(t), now + 1))
    /\ [][StartedAtIsKept /\ MarksAreApplied]_vars

C20_Witness ==
    /\ pc = "review_save_result"
    /\ origin = "loaded"
    /\ crashed
    /\ now = 2
    /\ mem0.tickets["A"].status = "RunningWorker"
    /\ launched = << <<"A", "worker">>, <<"A", "review">> >>
    /\ Entry("A").started_at = Some(1)
    /\ Entry("A").finished_at = Some(2)
    /\ Entry("A").status = "Complete"

\* C21: when the state file is written by the orchestrator alone, no ticket
\* is ever Blocked, in the state of a run or in the state file, whatever the
\* runs, crashes and resumes: no transition assigns Blocked.
C21_BlockedIsNeverWritten ==
    /\ \A t \in DOMAIN mem.tickets : Entry(t).status # "Blocked"
    /\ \A p \in Paths :
          IsComplete(fs[p]) =>
             \A t \in DOMAIN fs[p].doc.tickets :
                fs[p].doc.tickets[t].status # StatusToJson("Blocked")

C21_Witness ==
    /\ pc = "done"
    /\ runs = 2
    /\ origin = "loaded"
    /\ crashed
    /\ manifest = <<"B", "A">>
    /\ Entry("B").status = "Failed"
    /\ Entry("A").status = "Complete"
    /\ Disk = mem

\* C22: when run_workflow returns a report (not an error), every ticket of
\* the manifest has an entry in a terminal status (Complete, Failed or
\* Blocked), and the state file holds exactly the state the report was made
\* from: a load of it gives the same report.
C22_ReportMeansAllTerminal ==
    pc = "done" =>
        /\ err = "none"
        /\ idx = Len(manifest) + 1
        /\ \A t \in Ids(manifest) :
              t \in DOMAIN mem.tickets /\ Entry(t).status \in Terminal
        /\ IsComplete(stateFile)
        /\ Disk = mem
        /\ load_status(manifest, stateFile)
              = Returned("Some", "none", from_state(mem, state_file))
        /\ sessions = {}

C22_Witness ==
    /\ pc = "done"
    /\ manifest = <<"B", "A">>
    /\ origin = "loaded"
    /\ mem0.tickets["B"].status = "Blocked"
    /\ Entry("B").status = "Blocked"
    /\ Entry("A").status = "Complete"
    /\ launched = << <<"A", "worker">>, <<"A", "review">> >>
    /\ Disk = mem

\* what holds of an entry, by its status
EntryIsConsistent(e) ==
    /\ (e.finished_at # None) <=> (e.status \in {"Complete", "Failed"})
    /\ e.status = "Pending" =>
          /\ e.worker_log = None /\ e.review_log = None
          /\ e.note = None
          /\ e.started_at = None /\ e.finished_at = None
    /\ e.status \in {"RunningWorker", "RunningReview"} =>
          e.note = None /\ e.started_at # None
    /\ e.status \in {"NeedsReview", "RunningReview", "Complete", "Failed"} =>
          e.worker_log # None /\ e.started_at # None
    /\ e.status \in {"RunningReview", "Complete"} => e.review_log # None
    /\ e.status \in {"NeedsReview", "Complete", "Failed"} => e.note # None

\* C23: every entry, in the state of a run and in every complete file the
\* orchestrator has written, satisfies: finished_at is set exactly when the
\* status is Complete or Failed; a Pending entry has no log, no note and no
\* timestamp; a RunningWorker or RunningReview entry has no note and has
\* started_at; from NeedsReview on (NeedsReview, RunningReview, Complete, and
\* Failed, which is reached through a worker only) worker_log is set; a
\* Complete entry has worker_log and review_log.
C23_EntriesAreConsistent ==
    /\ \A t \in DOMAIN mem.tickets : EntryIsConsistent(Entry(t))
    /\ \A p \in Paths :
          IsComplete(fs[p]) =>
             \A t \in DOMAIN fs[p].doc.tickets :
                EntryIsConsistent(EntryFromJson(fs[p].doc.tickets[t]))

C23_Witness ==
    /\ pc = "review_wait"
    /\ runs = 2
    /\ origin = "loaded"
    /\ manifest = <<"B", "A">>
    /\ Entry("B").status = "Failed"
    /\ Entry("B").review_log = None
    /\ Entry("A").status = "RunningReview"
    /\ mem0.tickets["A"].status = "NeedsReview"
    /\ Disk = mem

\* the statuses a ticket has only after its worker succeeded
AfterWorker == {"NeedsReview", "RunningReview", "Complete"}

\* a review is launched, and a review passes, only after the worker of the
\* ticket has exited with 0; a ticket becomes Complete in the step in which
\* its review session ends with 0
ReviewComesAfterWorker ==
    /\ \A t \in TicketIds :
          /\ (<<t, "review">> \in sessions' \ sessions) => <<t, "worker">> \in passed
          /\ (<<t, "review">> \in passed' \ passed) => <<t, "worker">> \in passed
    /\ (pc # "idle" /\ pc' # "idle") =>
          \A t \in DOMAIN mem.tickets :
             (mem'.tickets[t].status = "Complete" /\ Entry(t).status # "Complete") =>
                /\ <<t, "worker">> \in passed
                /\ <<t, "review">> \in sessions \ sessions'
                /\ <<t, "review">> \in passed'

\* C24: a ticket is Complete, in the state of a run or in the state file,
\* only if a worker session of it has exited with 0 and, after that, a review
\* session of it has exited with 0; and a review session is launched for a
\* ticket, and a ticket is NeedsReview or RunningReview, only if a worker
\* session of it has exited with 0; through all runs, crashes and resumes.
C24_CompleteNeedsWorkerThenReview ==
    /\ [][ReviewComesAfterWorker]_vars
    /\ [](\A t \in TicketIds :
            /\ <<t, "review">> \in passed => <<t, "worker">> \in passed
            /\ <<t, "review">> \in sessions \cup LaunchedSet \cup prevLaunched =>
                  <<t, "worker">> \in passed
            /\ t \in DOMAIN mem.tickets =>
                  /\ Entry(t).status \in AfterWorker => <<t, "worker">> \in passed
                  /\ Entry(t).status = "Complete" => <<t, "review">> \in passed
            /\ OnDisk(t) =>
                  /\ Disk.tickets[t].status \in AfterWorker => <<t, "worker">> \in passed
                  /\ Disk.tickets[t].status = "Complete" => <<t, "review">> \in passed)

C24_Witness ==
    /\ pc = "review_save_result"
    /\ runs = 2
    /\ origin = "loaded"
    /\ crashed
    /\ manifest = <<"A">>
    /\ mem0.tickets["A"].status = "NeedsReview"
    /\ prevLaunched = {<<"A", "worker">>}
    /\ launched = << <<"A", "review">> >>
    /\ passed = {<<"A", "worker">>, <<"A", "review">>}
    /\ Entry("A").status = "Complete"

\* A run that starts reuses the file only with resume = true and an existing
\* state file; any other run of a valid manifest starts from initialize,
\* whatever the file holds.
StartsFromInitializeUnlessResumed ==
    (pc = "idle" /\ pc' # "idle") =>
       LET reuse == resume' /\ stateFile.exists IN
       /\ origin' = "loaded" => reuse
       /\ (Validate(manifest') /\ reuse /\ IsComplete(stateFile)) =>
             /\ origin' = "loaded"
             /\ \A t \in DOMAIN Disk.tickets :
                   t \in DOMAIN mem'.tickets /\ mem'.tickets[t] = Disk.tickets[t]
       /\ (Validate(manifest') /\ ~reuse) =>
             /\ origin' = "fresh"
             /\ pc' = "loop"
             /\ err' = "none"
             /\ DOMAIN mem'.tickets = Ids(manifest')
             /\ \A t \in Ids(manifest') : mem'.tickets[t] = PendingEntry(t)
             /\ UNCHANGED fs

\* A run that started from initialize writes its own state over the file.
FreshRunReplacesFile ==
    (origin = "fresh" /\ pc # "idle" /\ fs'[state_file] # fs[state_file]) =>
       /\ fs'[state_file].exists /\ fs'[state_file].written = Chunks
       /\ fs'[state_file].doc = Serialize(mem)
       /\ DOMAIN fs'[state_file].doc.tickets = Ids(manifest)

\* C25: the persisted state is reused only by a run with resume = true that
\* finds the state file. Every other run of a valid manifest starts from
\* initialize (resume = false over an existing file, resume = true with no
\* file): each manifest ticket is Pending when the loop reaches it and gets a
\* worker session, also one persisted as Complete or Failed, and the first
\* save replaces the file by the state of this run, which holds the ids of the
\* manifest and no other.
C25_ResumeNeedsFlagAndFile ==
    /\ [][StartsFromInitializeUnlessResumed]_vars
    /\ [][FreshRunReplacesFile]_vars
    /\ [](origin = "fresh" =>
            /\ DOMAIN mem.tickets = Ids(manifest)
            /\ (resume /\ launched = << >> /\ pc \in {"loop", "run_worker"}) =>
                  ~stateFile.exists
            /\ \A j \in 1..Len(manifest) :
                  /\ (j > idx \/ (j = idx /\ pc \in {"loop", "run_worker"})) =>
                        Entry(manifest[j]) = PendingEntry(manifest[j])
                  /\ j < idx => <<manifest[j], "worker">> \in LaunchedSet
            /\ launched # << >> =>
                  /\ IsComplete(stateFile)
                  /\ DOMAIN stateFile.doc.tickets = Ids(manifest))

C25_Witness ==
    /\ pc = "worker_launch"
    /\ runs = 2
    /\ ~resume
    /\ origin = "fresh"
    /\ ~crashed
    /\ manifest = <<"A">>
    /\ prevLaunched = {<<"B", "worker">>, <<"A", "worker">>, <<"A", "review">>}
    /\ <<"A", "review">> \in passed
    /\ Entry("A").status = "RunningWorker"
    /\ DOMAIN stateFile.doc.tickets = {"A"}
    /\ StatusFromJson(stateFile.doc.tickets["A"].status) = "RunningWorker"

\* the number of sessions a run has launched for a ticket
LaunchesOf(t) == Cardinality({i \in 1..Len(launched) : launched[i][1] = t})

\* the run is over a loaded state in which every manifest ticket is terminal
AllTerminalAtLoad ==
    /\ origin = "loaded"
    /\ \A t \in Ids(manifest) : mem0.tickets[t].status \in Terminal

\* the run has ended otherwise than by returning a report: an I/O, spawn or
\* missing-directory error was returned, or the process was killed
EndedByError ==
    \/ pc = "failed" /\ err \in {"io", "log", "spawn", "workdir"}
    \/ pc = "idle" /\ crashed

\* C26: when the process keeps running and every launched session exits, a
\* run that has entered its loop returns a report unless an I/O, spawn or
\* missing-directory error (or a kill) ends it; a run launches at most two
\* sessions per manifest ticket and none for any other id; and a resumed run
\* that loaded a state in which every manifest ticket is terminal launches no
\* session and returns its report likewise.
C26_RunReturns ==
    /\ (pc \in RunPcs) ~> (pc = "done" \/ EndedByError)
    /\ (pc \in RunPcs /\ AllTerminalAtLoad) ~>
          ((pc = "done" /\ launched = << >>) \/ EndedByError)
    /\ [](\A i \in 1..Len(launched) : launched[i][1] \in Ids(manifest))
    /\ [](\A t \in TicketIds : LaunchesOf(t) <= 2)
    /\ [](pc = "done" => Len(launched) <= 2 * Len(manifest))
    /\ []((InRun /\ AllTerminalAtLoad) =>
            /\ launched = << >>
            /\ sessions = {}
            /\ pc \in {"loop", "final_save", "done", "failed"}
            /\ mem = mem0)

C26_Witness ==
    /\ pc = "done"
    /\ manifest = <<"B", "A">>
    /\ Len(launched) = 4
    /\ LaunchesOf("A") = 2
    /\ LaunchesOf("B") = 2

\* a resumed run over an all-terminal state has returned without a session
C26_WitnessAllTerminal ==
    /\ pc = "done"
    /\ AllTerminalAtLoad
    /\ manifest = <<"B", "A">>
    /\ launched = << >>

====
